---- MODULE Spec2Model ----
(***************************************************************************)
(* Model of AIGenerator (backend/ai_generator.py): generate_response and   *)
(* its recursive helper _continue_tool_loop, the bounded multi-round tool   *)
(* loop driven against the LLM endpoint.                                    *)
(*                                                                          *)
(* The endpoint (client.messages.create) and the tool registry              *)
(* (tool_manager.execute_tool) are the environment: every endpoint call     *)
(* either raises or returns an arbitrary response (content blocks and a     *)
(* stop_reason), every tool execution either returns a text or raises.      *)
(* The handler is cut into steps exactly at these external calls.           *)
(*                                                                          *)
(* Python values: Optional values are sequences of length 0 (None) or 1;    *)
(* dicts and objects are records, an absent key is an absent field; list    *)
(* objects live in `heap` and are named by their index, so that copying a   *)
(* list and appending to a list are different things.                       *)
(***************************************************************************)
EXTENDS Integers, Sequences, FiniteSets, TLC

VARIABLES
    state,                \* position of the query in the loop's state machine
    query,                \* generate_response argument
    conversation_history, \* generate_response argument (Optional[str])
    tools,                \* generate_response argument (Optional[List])
    tool_manager,         \* generate_response argument: TRUE iff an object was supplied
    system,               \* system_content / system
    heap,                 \* the list objects created for the message sequence
    messages,             \* the list object bound to messages / new_messages
    response,             \* response / next_response (Optional)
    depth,                \* depth of _continue_tool_loop, 0 before the loop is entered
    tool_results,         \* tool_results of the current round
    has_error,            \* has_error of the current round
    idx,                  \* position of `for content_block in response.content`
    allow_more_tools,     \* allow_more_tools of the current round
    calls,                \* every client.messages.create call issued, in order
    responses,            \* every response the endpoint returned, in order
    execs,                \* every tool_manager.execute_tool call made, in order
    faults,               \* every exception client.messages.create raised, in order
    result,               \* the value generate_response returned (Optional)
    raised,               \* the exception that left generate_response (Optional)
    registry,             \* ToolManager.tools in registration order, each tool
                          \* with the citations it retains (last_sources)
    caller,               \* position of the registry's caller (RAGSystem.query)
    queries,              \* queries the caller has started
    runs,                 \* tool executions made for the current query
    probes,               \* get_last_sources calls made since the last query started
    reg_log,              \* the registry operations performed since the last
                          \* query started, in order
    sources,              \* sources of the query in progress: the citations it read
    returned,             \* the citations the last completed query returned
    threads,              \* the callers that share the registry concurrently:
                          \* each one's position, executions and citations read
    api,                  \* the /api/query handler: its position, the request
                          \* in progress and every response and fault so far
    first_run             \* what an earlier generate_response call with the same
                          \* arguments did: its calls, responses, executions,
                          \* faults and outcome (Optional)

loopvars == <<state, query, conversation_history, tools, tool_manager, system, heap,
              messages, response, depth, tool_results, has_error, idx,
              allow_more_tools, calls, responses, execs, faults, result, raised>>

callervars == <<caller, queries, runs, probes, reg_log, sources, returned>>

concvars == <<threads>>

appvars == <<api>>

replayvars == <<first_run>>

vars == <<loopvars, registry, callervars, concvars, appvars, replayvars>>

-----------------------------------------------------------------------------
(* Program constants *)

MAX_TOOL_ROUNDS == 2

SYSTEM_PROMPT == "You are an AI assistant specialized in course materials"

base_params == [model |-> "claude-sonnet-4-20250514", temperature |-> 0, max_tokens |-> 800]

-----------------------------------------------------------------------------
(* Bounds and the inputs drawn from them *)

MaxBlocks == 2      \* content blocks in one endpoint response

None == <<>>
Some(v) == <<v>>

Queries == {"What is X?"}

Histories == {None, Some(""), Some("User: hi -- Assistant: hello")}

ToolLists == {None, Some(<<>>),
              Some(<<[name |-> "search_course_content"], [name |-> "get_course_outline"]>>)}

\* the tools registered in the registry behind tool_manager
RegisteredTools == {"search_course_content", "get_course_outline"}

\* the tool names the endpoint's invocation blocks use
ToolNames == {"search_course_content", "nonexistent_tool"}

StopReasons == {"end_turn", "tool_use"}

ToolErrors == {"Tool failed!"}

EndpointErrors == {"API Error: Rate limited"}

(* Block texts and invocation identifiers are opaque to the loop; the       *)
(* endpoint makes them unique, here by call number and position.            *)
\* the arguments the model passes to the search tool: a query and, optionally,
\* a course filter and a lesson filter
SearchInputs ==
    << [query |-> "X"],
       [query |-> "test", course_name |-> "Specific Course"],
       [query |-> "nonexistent topic"],
       [query |-> "computer use", course_name |-> "Computer Use", lesson_number |-> 5],
       [query |-> "nonexistent topic", lesson_number |-> 5],
       [query |-> "test", course_name |-> "Specific Course", lesson_number |-> 5] >>

\* the arguments of the invocation at position i of the response to call c
ToolInput(c, i) == SearchInputs[((2 * (c - 1) + (i - 1)) % Len(SearchInputs)) + 1]

TextBlock(c, i) ==
    [type |-> "text", text |-> "text_" \o ToString(c) \o "_" \o ToString(i)]

ToolUseBlock(c, i, n) ==
    [type |-> "tool_use", id |-> "toolu_" \o ToString(c) \o "_" \o ToString(i),
     name |-> n, input |-> ToolInput(c, i)]

BlocksAt(c, i) == {TextBlock(c, i)} \cup {ToolUseBlock(c, i, n) : n \in ToolNames}

\* every content of exactly n blocks the endpoint can return to call c
RECURSIVE ContentsOfLen(_, _)
ContentsOfLen(c, n) ==
    IF n = 0 THEN {<<>>}
    ELSE {Append(s, b) : s \in ContentsOfLen(c, n - 1), b \in BlocksAt(c, n)}

Contents(c) == UNION {ContentsOfLen(c, n) : n \in 0..MaxBlocks}

Responses(c) == {[content |-> s, stop_reason |-> r] : s \in Contents(c), r \in StopReasons}

-----------------------------------------------------------------------------
(* Pure helpers *)

\* Python truthiness of an Optional[str] / Optional[List]
Truthy(opt) == opt # None /\ Len(opt[1]) > 0

\* the text of the last block that has one
RECURSIVE ExtractLastFrom(_, _)
ExtractLastFrom(content, i) ==
    IF i < 1 THEN ""
    ELSE IF "text" \in DOMAIN content[i] THEN content[i].text
    ELSE ExtractLastFrom(content, i - 1)

\* _extract_text_response: first block with a `text` attribute, else ""
RECURSIVE ExtractFrom(_, _)
ExtractFrom(content, i) ==
    IF i > Len(content) THEN ""
    ELSE IF "text" \in DOMAIN content[i] THEN content[i].text
    ELSE ExtractFrom(content, i + 1)

_extract_text_response_Last(resp) == ExtractLastFrom(resp.content, Len(resp.content))

_extract_text_response(resp) == ExtractFrom(resp.content, 1)


SystemContent_SuffixWhenNotNone(h) ==
    IF h # None THEN SYSTEM_PROMPT \o "\n\nPrevious conversation:\n" \o h[1]
    ELSE SYSTEM_PROMPT

\* the system text built at lines 79-83
SystemContent(h) ==
    IF Truthy(h) THEN SYSTEM_PROMPT \o "\n\nPrevious conversation:\n" \o h[1]
    ELSE SYSTEM_PROMPT

CallParams_FollowUpChanged(sys, msgs, withTools, tls) ==
    LET b == IF Len(msgs) > 1 THEN [base_params EXCEPT !.max_tokens = 1600]
             ELSE base_params
        p == [messages |-> msgs, system |-> sys] @@ b
    IN  IF withTools THEN [tools |-> tls, tool_choice |-> [type |-> "auto"]] @@ p
        ELSE p

CallParams_ToolsReversed(sys, msgs, withTools, tls) ==
    LET p == [messages |-> msgs, system |-> sys] @@ base_params
    IN  IF withTools
        THEN [tools |-> [i \in 1..Len(tls) |-> tls[Len(tls) + 1 - i]],
              tool_choice |-> [type |-> "auto"]] @@ p
        ELSE p

CallParams_EmptyTools(sys, msgs, withTools, tls) ==
    [tools |-> IF withTools THEN tls ELSE <<>>, tool_choice |-> [type |-> "auto"]]
        @@ [messages |-> msgs, system |-> sys] @@ base_params

\* api_params / next_params: base_params plus messages and system, plus the
\* tools and tool_choice keys only when tools are offered
CallParams(sys, msgs, withTools, tls) ==
    LET p == [messages |-> msgs, system |-> sys] @@ base_params
    IN  IF withTools THEN [tools |-> tls, tool_choice |-> [type |-> "auto"]] @@ p
        ELSE p

WantsToolLoop_NoRegistryCheck(resp, tm, tls) ==
    resp.stop_reason = "tool_use" /\ Truthy(tls)

\* line 104: the first response starts the tool loop
WantsToolLoop(resp, tm, tls) ==
    resp.stop_reason = "tool_use" /\ tm /\ Truthy(tls)

AllowMoreTools_OffByOne(d, err) == d <= MAX_TOOL_ROUNDS /\ ~err

AllowMoreTools_IgnoresError(d, err) == d < MAX_TOOL_ROUNDS

\* line 175
AllowMoreTools(d, err) == d < MAX_TOOL_ROUNDS /\ ~err

WantsNextRound_IgnoresStop(resp, allow) == allow

WantsNextRound_IgnoresAllow(resp, allow) ==
    resp.stop_reason = "tool_use"

\* line 193: a later response starts another round
WantsNextRound(resp, allow) ==
    resp.stop_reason = "tool_use" /\ allow

\* the next tool_use block visited by the for loop of line 148 from position i
\* on, 0 when the loop runs off the end of the content
RECURSIVE NextToolUse(_, _)
NextToolUse(content, i) ==
    IF i > Len(content) THEN 0
    ELSE IF content[i].type = "tool_use" THEN i
    ELSE NextToolUse(content, i + 1)

ForLoopDone_Early(content, i) == TRUE

ForLoopDone_Stuck(content, i) == i > Len(content)

\* line 148: the for loop has no tool_use block left to visit from position i
ForLoopDone(content, i) == NextToolUse(content, i) = 0

ResultEntry_WrongId(block, text) ==
    [type |-> "tool_result", tool_use_id |-> block.name, content |-> text]

ResultEntry_Flagged(block, text) ==
    [type |-> "tool_result", tool_use_id |-> block.id, content |-> text,
     is_error |-> TRUE]

\* lines 155-159
ResultEntry(block, text) ==
    [type |-> "tool_result", tool_use_id |-> block.id, content |-> text]

ErrorEntry_NoFlag(block, e) ==
    [type |-> "tool_result", tool_use_id |-> block.id,
     content |-> "Error executing tool: " \o e]

\* lines 162-167
ErrorEntry(block, e) ==
    [type |-> "tool_result", tool_use_id |-> block.id,
     content |-> "Error executing tool: " \o e, is_error |-> TRUE]

\* the topics the course material indexed by the vector store covers
KnownTopics == {"X", "computer use"}

\* the search finds at least one chunk for these arguments
Finds(input) == input.query \in KnownTopics

NoResultsText_NoFilters(input) == "No relevant content found."

\* CourseSearchTool.execute when the search matched nothing: the fixed message
\* followed by the filters that were applied
NoResultsText(input) ==
    "No relevant content found"
        \o (IF "course_name" \in DOMAIN input
            THEN " in course '" \o input.course_name \o "'" ELSE "")
        \o (IF "lesson_number" \in DOMAIN input
            THEN " in lesson " \o ToString(input.lesson_number) ELSE "")
        \o "."

\* the number of citations an execution that returns produces: one per
\* matched chunk, none when the search matched nothing
Produces(n, input) ==
    IF n = "search_course_content" /\ ~Finds(input) THEN 0 ELSE 1

\* ToolManager.execute_tool: the texts it can return for a name and arguments
ExecuteReturns(tm, n, input) ==
    IF ~tm THEN {}
    ELSE IF n = "search_course_content" /\ ~Finds(input) THEN {NoResultsText(input)}
    ELSE IF n \in RegisteredTools THEN {"Results for " \o n}
    ELSE {"Tool '" \o n \o "' not found"}

\* ToolManager.execute_tool: the exceptions the call can raise for a name
\* (calling execute_tool on None raises AttributeError)
ExecuteRaises(tm, n) ==
    IF ~tm THEN {"'NoneType' object has no attribute 'execute_tool'"}
    ELSE IF n \in RegisteredTools THEN ToolErrors
    ELSE {}

-----------------------------------------------------------------------------
(* The tool registry and the citations its tools retain *)

MaxQueries == 2     \* queries the caller runs one after the other
MaxToolRuns == 2    \* tool executions made for one query
MaxCitations == 1   \* citations one tool execution produces
MaxProbes == 1      \* get_last_sources calls made between two queries

MaxRunsEach == 1    \* tool executions made for each of two concurrent queries

\* the callers that run a query against the one registry at the same time
Threads == {1, 2}

\* the tools in the order they were registered
RegistrationOrder == <<"search_course_content", "get_course_outline">>

\* the registry after construction: every tool registered, nothing retained
NewRegistry ==
    [i \in DOMAIN RegistrationOrder |->
        [name |-> RegistrationOrder[i], last_sources |-> <<>>]]

\* the n citations produced by execution b of query (or endpoint call) a:
\* a display text and a link
Citations(a, b, n) ==
    [i \in 1..n |->
        [text |-> "Course " \o ToString(a) \o " - Lesson " \o ToString(b)
                    \o "." \o ToString(i),
         url |-> "https://example.com/lesson" \o ToString(b)]]

IsRegistered(reg, n) == \E i \in DOMAIN reg : reg[i].name = n

ExecuteEffect_Accumulates(reg, n, cites) ==
    [i \in DOMAIN reg |->
        IF reg[i].name = n
        THEN [reg[i] EXCEPT !.last_sources = reg[i].last_sources \o cites]
        ELSE reg[i]]

ExecuteEffect_RegistersUnknown(reg, n, cites) ==
    IF IsRegistered(reg, n)
    THEN [i \in DOMAIN reg |->
            IF reg[i].name = n THEN [reg[i] EXCEPT !.last_sources = cites]
            ELSE reg[i]]
    ELSE Append(reg, [name |-> n, last_sources |-> <<>>])

\* what execute_tool leaves in the registry: the dispatched tool's retained
\* citations are overwritten by those of this execution; a name that is not
\* registered reaches no tool
ExecuteEffect(reg, n, cites) ==
    [i \in DOMAIN reg |->
        IF reg[i].name = n THEN [reg[i] EXCEPT !.last_sources = cites]
        ELSE reg[i]]

RECURSIVE ConcatSources(_, _)
ConcatSources(reg, i) ==
    IF i > Len(reg) THEN <<>>
    ELSE reg[i].last_sources \o ConcatSources(reg, i + 1)

\* get_last_sources: the retained citations of every registered tool, in
\* registration order
get_last_sources(reg) == ConcatSources(reg, 1)

reset_sources_FirstToolOnly(reg) ==
    [i \in DOMAIN reg |->
        IF i = 1 THEN [reg[i] EXCEPT !.last_sources = <<>>] ELSE reg[i]]

reset_sources_Keeps(reg) == reg

\* reset_sources: every tool's retained citation list is cleared
reset_sources(reg) ==
    [i \in DOMAIN reg |-> [reg[i] EXCEPT !.last_sources = <<>>]]

-----------------------------------------------------------------------------
(* State machine *)

Init ==
    /\ state = "INITIAL"
    /\ query = ""
    /\ conversation_history = None
    /\ tools = None
    /\ tool_manager = FALSE
    /\ system = ""
    /\ heap = <<>>
    /\ messages = 0
    /\ response = None
    /\ depth = 0
    /\ tool_results = <<>>
    /\ has_error = FALSE
    /\ idx = 0
    /\ allow_more_tools = FALSE
    /\ calls = <<>>
    /\ responses = <<>>
    /\ execs = <<>>
    /\ faults = <<>>
    /\ result = None
    /\ raised = None
    /\ registry = NewRegistry
    /\ caller = "IDLE"
    /\ queries = 0
    /\ runs = 0
    /\ probes = 0
    /\ reg_log = <<>>
    /\ sources = <<>>
    /\ returned = <<>>
    /\ threads = [t \in Threads |->
                     [pc |-> "IDLE", runs |-> 0, produced |-> <<>>, sources |-> <<>>,
                      overlap |-> FALSE]]
    /\ api = [pc |-> "IDLE", served |-> 0, request |-> None, session_id |-> None,
              responses |-> <<>>, raised |-> <<>>]
    /\ first_run = None

\* the record kept of one client.messages.create call: its keyword arguments,
\* the list object passed as messages, and the rounds run before it
CallRecord(params, ref, d) == [params |-> params, list |-> ref, depth |-> d]

\* generate_response, lines 78-101: build the system text, the first message
\* list and the parameters, and issue the first endpoint call
generate_response(q, h, tls, tm) ==
    /\ state = "INITIAL"
    /\ query' = q
    /\ conversation_history' = h
    /\ tools' = tls
    /\ tool_manager' = tm
    /\ system' = SystemContent(h)
    /\ heap' = << <<[role |-> "user", content |-> q]>> >>
    /\ messages' = 1
    /\ calls' = <<CallRecord(CallParams(system', heap'[1], Truthy(tls),
                                        IF Truthy(tls) THEN tls[1] ELSE <<>>), 1, 0)>>
    /\ state' = "AWAITING_MODEL"
    /\ UNCHANGED <<registry, callervars, concvars, appvars, replayvars>>
    /\ UNCHANGED <<response, depth, tool_results, has_error, idx,
                   allow_more_tools, responses, execs, faults, result, raised>>

EndpointRaises_Swallowed(e) ==
    /\ state = "AWAITING_MODEL"
    /\ faults' = Append(faults, [call |-> Len(calls), error |-> e])
    /\ result' = Some("")
    /\ state' = "DONE"
    /\ UNCHANGED <<registry, callervars, concvars, appvars, replayvars>>
    /\ UNCHANGED <<query, conversation_history, tools, tool_manager, system, heap,
                   messages, response, depth, tool_results, has_error, idx,
                   allow_more_tools, calls, responses, execs, raised>>

EndpointRaises_ResetsSources(e) ==
    /\ state = "AWAITING_MODEL"
    /\ faults' = Append(faults, [call |-> Len(calls), error |-> e])
    /\ raised' = Some(e)
    /\ state' = "FAILED"
    /\ registry' = reset_sources(registry)
    /\ UNCHANGED <<callervars, concvars, appvars, replayvars>>
    /\ UNCHANGED <<query, conversation_history, tools, tool_manager, system, heap,
                   messages, response, depth, tool_results, has_error, idx,
                   allow_more_tools, calls, responses, execs, result>>

\* client.messages.create raises: nothing in generate_response or
\* _continue_tool_loop catches it (lines 101, 190)
EndpointRaises(e) ==
    /\ state = "AWAITING_MODEL"
    /\ faults' = Append(faults, [call |-> Len(calls), error |-> e])
    /\ raised' = Some(e)
    /\ state' = "FAILED"
    /\ UNCHANGED <<registry, callervars, concvars, appvars, replayvars>>
    /\ UNCHANGED <<query, conversation_history, tools, tool_manager, system, heap,
                   messages, response, depth, tool_results, has_error, idx,
                   allow_more_tools, calls, responses, execs, result>>

EnterRound_ToolUseOnly(resp, d) ==
    /\ heap' = Append(heap, Append(heap[messages],
                   [role |-> "assistant",
                    content |-> SelectSeq(resp.content, LAMBDA b : b.type = "tool_use")]))
    /\ messages' = Len(heap) + 1
    /\ depth' = d
    /\ tool_results' = <<>>
    /\ has_error' = FALSE
    /\ idx' = 1
    /\ state' = "TOOLS_REQUESTED"
    /\ UNCHANGED <<result, allow_more_tools>>

EnterRound_InPlace(resp, d) ==
    /\ heap' = [heap EXCEPT ![messages] =
                    Append(@, [role |-> "assistant", content |-> resp.content])]
    /\ messages' = messages
    /\ depth' = d
    /\ tool_results' = <<>>
    /\ has_error' = FALSE
    /\ idx' = 1
    /\ state' = "TOOLS_REQUESTED"
    /\ UNCHANGED <<result, allow_more_tools>>

\* _continue_tool_loop, lines 139-146: copy the list, append the assistant
\* turn, start the round at depth d
EnterRound(resp, d) ==
    /\ heap' = Append(heap, Append(heap[messages],
                                   [role |-> "assistant", content |-> resp.content]))
    /\ messages' = Len(heap) + 1
    /\ depth' = d
    /\ tool_results' = <<>>
    /\ has_error' = FALSE
    /\ idx' = 1
    /\ state' = "TOOLS_REQUESTED"
    /\ UNCHANGED <<result, allow_more_tools>>

ReturnText_FirstResponse(resp) ==
    /\ result' = Some(_extract_text_response(IF responses = <<>> THEN resp
                                             ELSE responses[1]))
    /\ state' = "DONE"
    /\ UNCHANGED <<heap, messages, depth, tool_results, has_error, idx,
                   allow_more_tools>>

\* lines 115 and 205: return the extracted text
ReturnText(resp) ==
    /\ result' = Some(_extract_text_response(resp))
    /\ state' = "DONE"
    /\ UNCHANGED <<heap, messages, depth, tool_results, has_error, idx,
                   allow_more_tools>>

\* the first endpoint call returns and line 104 sends it to the tool loop
FirstResponseEntersLoop(resp) ==
    /\ state = "AWAITING_MODEL"
    /\ depth = 0
    /\ WantsToolLoop(resp, tool_manager, tools)
    /\ response' = Some(resp)
    /\ responses' = Append(responses, resp)
    /\ EnterRound(resp, 1)
    /\ UNCHANGED <<registry, callervars, concvars, appvars, replayvars>>
    /\ UNCHANGED <<query, conversation_history, tools, tool_manager, system,
                   calls, execs, faults, raised>>

\* the first endpoint call returns and line 115 returns its text
FirstResponseReturns(resp) ==
    /\ state = "AWAITING_MODEL"
    /\ depth = 0
    /\ ~WantsToolLoop(resp, tool_manager, tools)
    /\ response' = Some(resp)
    /\ responses' = Append(responses, resp)
    /\ ReturnText(resp)
    /\ UNCHANGED <<registry, callervars, concvars, appvars, replayvars>>
    /\ UNCHANGED <<query, conversation_history, tools, tool_manager, system,
                   calls, execs, faults, raised>>

\* the record kept of one tool_manager.execute_tool call
ExecRecord(block, j, outcome, v) ==
    [call |-> Len(calls), pos |-> j, name |-> block.name, input |-> block.input,
     outcome |-> outcome, value |-> v]

ToolReturns_NotFoundIsError(text) ==
    /\ state = "TOOLS_REQUESTED"
    /\ LET content == response[1].content
           j == NextToolUse(content, idx)
       IN  /\ j # 0
           /\ text \in ExecuteReturns(tool_manager, content[j].name, content[j].input)
           /\ tool_results' = Append(tool_results, ResultEntry(content[j], text))
           /\ has_error' = (has_error \/ content[j].name \notin RegisteredTools)
           /\ execs' = Append(execs, ExecRecord(content[j], j, "returned", text))
           /\ idx' = j + 1
           /\ registry' = ExecuteEffect(registry, content[j].name,
                                        Citations(Len(calls), j,
                                                  Produces(content[j].name, content[j].input)))
    /\ UNCHANGED <<callervars, concvars, appvars, replayvars>>
    /\ UNCHANGED <<state, query, conversation_history, tools, tool_manager, system,
                   heap, messages, response, depth, allow_more_tools,
                   calls, responses, faults, result, raised>>

\* lines 148-159: the for loop reaches its next tool_use block and
\* execute_tool returns a text
ToolReturns(text) ==
    /\ state = "TOOLS_REQUESTED"
    /\ LET content == response[1].content
           j == NextToolUse(content, idx)
       IN  /\ j # 0
           /\ text \in ExecuteReturns(tool_manager, content[j].name, content[j].input)
           /\ tool_results' = Append(tool_results, ResultEntry(content[j], text))
           /\ execs' = Append(execs, ExecRecord(content[j], j, "returned", text))
           /\ idx' = j + 1
           /\ registry' = ExecuteEffect(registry, content[j].name,
                                        Citations(Len(calls), j,
                                                  Produces(content[j].name, content[j].input)))
    /\ UNCHANGED <<callervars, concvars, appvars, replayvars>>
    /\ UNCHANGED <<state, query, conversation_history, tools, tool_manager, system,
                   heap, messages, response, depth, has_error, allow_more_tools,
                   calls, responses, faults, result, raised>>

AfterError_Breaks(content, j) == Len(content) + 1

\* the position the for loop of line 148 is at after the except clause
AfterError(content, j) == j + 1

\* lines 148-154, 160-168: the for loop reaches its next tool_use block and
\* execute_tool raises
ToolRaises(e) ==
    /\ state = "TOOLS_REQUESTED"
    /\ LET content == response[1].content
           j == NextToolUse(content, idx)
       IN  /\ j # 0
           /\ e \in ExecuteRaises(tool_manager, content[j].name)
           /\ tool_results' = Append(tool_results, ErrorEntry(content[j], e))
           /\ has_error' = TRUE
           /\ execs' = Append(execs, ExecRecord(content[j], j, "raised", e))
           /\ idx' = AfterError(content, j)
    /\ UNCHANGED <<registry, callervars, concvars, appvars, replayvars>>
    /\ UNCHANGED <<state, query, conversation_history, tools, tool_manager, system,
                   heap, messages, response, depth, allow_more_tools,
                   calls, responses, faults, result, raised>>

WithResults_Dropped(msgs, results) == msgs

WithResults_OneTurnEach(msgs, results) ==
    msgs \o [n \in 1..Len(results) |-> [role |-> "user", content |-> <<results[n]>>]]

WithResults_AsAssistant(msgs, results) ==
    IF results # <<>> THEN Append(msgs, [role |-> "assistant", content |-> results])
    ELSE msgs

WithResults_EvenWhenEmpty(msgs, results) ==
    Append(msgs, [role |-> "user", content |-> results])

\* lines 170-172: the user turn holding the round's results
WithResults(msgs, results) ==
    IF results # <<>> THEN Append(msgs, [role |-> "user", content |-> results])
    ELSE msgs

\* lines 170-190: the for loop is over; append the results, decide whether
\* tools are offered again and issue the next endpoint call
ContinueCall ==
    /\ state = "TOOLS_REQUESTED"
    /\ ForLoopDone(response[1].content, idx)
    /\ idx' = Len(response[1].content) + 1
    /\ heap' = [heap EXCEPT ![messages] = WithResults(@, tool_results)]
    /\ allow_more_tools' = AllowMoreTools(depth, has_error)
    /\ calls' = Append(calls,
                       CallRecord(CallParams(system, heap'[messages], allow_more_tools',
                                             IF allow_more_tools' THEN tools[1] ELSE <<>>),
                                  messages, depth))
    /\ state' = "AWAITING_MODEL"
    /\ UNCHANGED <<registry, callervars, concvars, appvars, replayvars>>
    /\ UNCHANGED <<query, conversation_history, tools, tool_manager, system, messages,
                   response, depth, tool_results, has_error, responses, execs,
                   faults, result, raised>>

NextResponseRecurses_SameDepth(resp) ==
    /\ state = "AWAITING_MODEL"
    /\ depth >= 1
    /\ WantsNextRound(resp, allow_more_tools)
    /\ response' = Some(resp)
    /\ responses' = Append(responses, resp)
    /\ EnterRound(resp, depth)
    /\ UNCHANGED <<registry, callervars, concvars, appvars, replayvars>>
    /\ UNCHANGED <<query, conversation_history, tools, tool_manager, system,
                   calls, execs, faults, raised>>

\* a later endpoint call returns and line 193 recurses into the next round
NextResponseRecurses(resp) ==
    /\ state = "AWAITING_MODEL"
    /\ depth >= 1
    /\ WantsNextRound(resp, allow_more_tools)
    /\ response' = Some(resp)
    /\ responses' = Append(responses, resp)
    /\ EnterRound(resp, depth + 1)
    /\ UNCHANGED <<registry, callervars, concvars, appvars, replayvars>>
    /\ UNCHANGED <<query, conversation_history, tools, tool_manager, system,
                   calls, execs, faults, raised>>

\* a later endpoint call returns and line 205 returns its text
NextResponseReturns(resp) ==
    /\ state = "AWAITING_MODEL"
    /\ depth >= 1
    /\ ~WantsNextRound(resp, allow_more_tools)
    /\ response' = Some(resp)
    /\ responses' = Append(responses, resp)
    /\ ReturnText(resp)
    /\ UNCHANGED <<registry, callervars, concvars, appvars, replayvars>>
    /\ UNCHANGED <<query, conversation_history, tools, tool_manager, system,
                   calls, execs, faults, raised>>

\* the endpoint returns some response to the call in flight
EndpointReturns ==
    /\ state = "AWAITING_MODEL"
    /\ \E resp \in Responses(Len(calls)) :
        \/ FirstResponseEntersLoop(resp)
        \/ FirstResponseReturns(resp)
        \/ NextResponseRecurses(resp)
        \/ NextResponseReturns(resp)

Next ==
    \/ \E q \in Queries, h \in Histories, tls \in ToolLists, tm \in BOOLEAN :
           generate_response(q, h, tls, tm)
    \/ EndpointReturns
    \/ \E e \in EndpointErrors : EndpointRaises(e)
    \/ \E text \in UNION {ExecuteReturns(TRUE, n, SearchInputs[a]) :
                            n \in ToolNames, a \in DOMAIN SearchInputs} : ToolReturns(text)
    \/ \E e \in UNION {ExecuteRaises(tm, n) : tm \in BOOLEAN, n \in ToolNames} : ToolRaises(e)
    \/ ContinueCall

Spec == Init /\ [][Next]_vars

\* the steps of a query whose endpoint calls all return; the history only
\* flows into the system text and never into a branch, so these queries are
\* started without one
NextReturning ==
    \/ \E q \in Queries, tls \in ToolLists, tm \in BOOLEAN :
           generate_response(q, None, tls, tm)
    \/ EndpointReturns
    \/ \E text \in UNION {ExecuteReturns(TRUE, n, SearchInputs[a]) :
                            n \in ToolNames, a \in DOMAIN SearchInputs} : ToolReturns(text)
    \/ \E e \in UNION {ExecuteRaises(tm, n) : tm \in BOOLEAN, n \in ToolNames} : ToolRaises(e)
    \/ ContinueCall

\* generate_response is synchronous: the caller's thread runs it to the end,
\* and here every endpoint call and every tool execution comes back
SpecLive == Init /\ [][NextReturning]_vars /\ WF_vars(NextReturning)

-----------------------------------------------------------------------------
(* The registry under its caller: queries run one after the other, each
   executing tools, then reading the citations, then resetting them *)

\* the record kept of one registry operation
RegRecord(op, n, outcome, v, after) ==
    [op |-> op, query |-> IF caller = "IDLE" THEN 0 ELSE queries, name |-> n,
     outcome |-> outcome, value |-> v, before |-> registry, after |-> after]

\* the caller starts a query; no other query is in progress. The record of
\* the start keeps the registry the query found and, as value, the citations
\* the query before it returned
QueryStarts ==
    /\ caller = "IDLE"
    /\ queries < MaxQueries
    /\ caller' = "GENERATING"
    /\ queries' = queries + 1
    /\ runs' = 0
    /\ probes' = 0
    /\ sources' = <<>>
    /\ reg_log' = <<[op |-> "start", query |-> queries + 1, name |-> "",
                     outcome |-> "returned", value |-> returned,
                     before |-> registry, after |-> registry]>>
    /\ UNCHANGED <<loopvars, concvars, appvars, replayvars, registry, returned>>

\* execute_tool returns: name n is dispatched during the query and, if a tool
\* has that name, it runs and produces k citations, which the record of the
\* execution keeps as produced
execute_tool(n, k) ==
    /\ caller = "GENERATING"
    /\ runs < MaxToolRuns
    /\ \E text \in ExecuteReturns(TRUE, n, SearchInputs[IF k = 0 THEN 3 ELSE 1]) :
        LET after == ExecuteEffect(registry, n, Citations(queries, runs + 1, k))
            produced == IF IsRegistered(registry, n)
                        THEN Citations(queries, runs + 1, k) ELSE <<>>
        IN  /\ registry' = after
            /\ reg_log' = Append(reg_log,
                                 RegRecord("execute", n, "returned", text, after)
                                     @@ [produced |-> produced])
    /\ runs' = runs + 1
    /\ UNCHANGED <<loopvars, concvars, appvars, replayvars, caller, queries, probes, sources, returned>>

\* execute_tool raises: the tool fails before it has produced anything
execute_tool_raises(n) ==
    /\ caller = "GENERATING"
    /\ runs < MaxToolRuns
    /\ \E e \in ExecuteRaises(TRUE, n) :
        reg_log' = Append(reg_log, RegRecord("execute", n, "raised", e, registry))
    /\ runs' = runs + 1
    /\ UNCHANGED <<loopvars, concvars, appvars, replayvars, registry, caller, queries, probes, sources, returned>>

\* the answer has been generated and the caller reads the citations
QueryDrains ==
    /\ caller = "GENERATING"
    /\ sources' = get_last_sources(registry)
    /\ reg_log' = Append(reg_log, RegRecord("drain", "", "returned",
                                            get_last_sources(registry), registry))
    /\ caller' = "DRAINED"
    /\ UNCHANGED <<loopvars, concvars, appvars, replayvars, registry, queries, runs, probes, returned>>

\* the caller resets the citations and the query returns the ones it read
QueryResets ==
    /\ caller = "DRAINED"
    /\ returned' = sources
    /\ registry' = reset_sources(registry)
    /\ reg_log' = Append(reg_log, RegRecord("reset", "", "returned", "",
                                            reset_sources(registry)))
    /\ caller' = "IDLE"
    /\ UNCHANGED <<loopvars, concvars, appvars, replayvars, queries, runs, probes, sources>>

\* get_last_sources is called while no query is in progress
Probe ==
    /\ caller = "IDLE"
    /\ probes < MaxProbes
    /\ probes' = probes + 1
    /\ reg_log' = Append(reg_log, RegRecord("drain", "", "returned",
                                            get_last_sources(registry), registry))
    /\ UNCHANGED <<loopvars, concvars, appvars, replayvars, registry, caller, queries, runs, sources, returned>>

NextRegistry ==
    \/ QueryStarts
    \/ \E n \in ToolNames \cup RegisteredTools, k \in 0..MaxCitations : execute_tool(n, k)
    \/ \E n \in ToolNames \cup RegisteredTools : execute_tool_raises(n)
    \/ QueryDrains
    \/ QueryResets
    \/ Probe

SpecRegistry == Init /\ [][NextRegistry]_vars

-----------------------------------------------------------------------------
(* Two callers running one query each against the same registry at the same
   time; every registry operation is atomic *)

\* caller t starts its query; it overlaps with the other caller's query if
\* that one is in progress
ThreadStarts(t) ==
    /\ threads[t].pc = "IDLE"
    /\ LET busy == {u \in Threads \ {t} : threads[u].pc \in {"GENERATING", "DRAINED"}}
       IN  threads' = [u \in Threads |->
                          IF u = t
                          THEN [threads[u] EXCEPT !.pc = "GENERATING",
                                                  !.overlap = (busy # {})]
                          ELSE IF u \in busy
                          THEN [threads[u] EXCEPT !.overlap = TRUE]
                          ELSE threads[u]]
    /\ UNCHANGED <<loopvars, registry, callervars, appvars, replayvars>>

\* execute_tool returns for caller t: the tool named n runs and produces k
\* citations
ThreadExecutes(t, n, k) ==
    /\ threads[t].pc = "GENERATING"
    /\ threads[t].runs < MaxRunsEach
    /\ LET cites == Citations(t, threads[t].runs + 1, k)
       IN  /\ registry' = ExecuteEffect(registry, n, cites)
           /\ threads' = [threads EXCEPT
                             ![t].runs = @ + 1,
                             ![t].produced = Append(@, [name |-> n, cites |-> cites])]
    /\ UNCHANGED <<loopvars, callervars, appvars, replayvars>>

\* caller t has its answer and reads the citations
ThreadDrains(t) ==
    /\ threads[t].pc = "GENERATING"
    /\ threads' = [threads EXCEPT ![t].pc = "DRAINED",
                                  ![t].sources = get_last_sources(registry)]
    /\ UNCHANGED <<loopvars, registry, callervars, appvars, replayvars>>

\* caller t resets the citations and returns
ThreadResets(t) ==
    /\ threads[t].pc = "DRAINED"
    /\ registry' = reset_sources(registry)
    /\ threads' = [threads EXCEPT ![t].pc = "RETURNED"]
    /\ UNCHANGED <<loopvars, callervars, appvars, replayvars>>

NextConcurrent ==
    \/ \E t \in Threads : ThreadStarts(t)
    \/ \E t \in Threads, n \in RegisteredTools, k \in 0..MaxCitations :
           ThreadExecutes(t, n, k)
    \/ \E t \in Threads : ThreadDrains(t)
    \/ \E t \in Threads : ThreadResets(t)

SpecConcurrent == Init /\ [][NextConcurrent]_vars

-----------------------------------------------------------------------------
(* The application boundary: the POST /api/query handler around
   RAGSystem.query *)

MaxRequests == 2    \* requests the handler serves one after the other

RequestQueries == {"What is tool use?", ""}

SessionIds == {None, Some(""), Some("existing-session")}

NewSessionIds == {"new-session-id"}

Answers == {"This is a test response about the course."}

\* the source lists RAGSystem.query can hand back; the last one holds a
\* source without text, which SourceCitation rejects
SourceLists ==
    { <<>>,
      <<[text |-> "Test Course - Lesson 1", url |-> "https://example.com/lesson1"]>>,
      <<[text |-> "Course A - Lesson 1", url |-> "https://example.com/a"],
        [url |-> "https://example.com/b"]>> }

AppErrors == {"Database error"} \cup EndpointErrors

ValidationError == "1 validation error for SourceCitation"

\* SourceCitation(**s) accepts the source
ValidSource(src) == "text" \in DOMAIN src

HandlerFails_Swallowed(a, e) ==
    [a EXCEPT !.pc = "IDLE",
              !.responses = Append(@, [request |-> a.served, status |-> 200,
                                       body |-> [answer |-> "", sources |-> <<>>,
                                                 session_id |-> ""]]),
              !.raised = Append(@, [request |-> a.served, error |-> e])]

\* the except clause: the fault becomes HTTPException(500, detail=str(e))
HandlerFails(a, e) ==
    [a EXCEPT !.pc = "IDLE",
              !.responses = Append(@, [request |-> a.served, status |-> 500,
                                       body |-> [detail |-> e]]),
              !.raised = Append(@, [request |-> a.served, error |-> e])]

\* a request arrives: the handler takes its session id and, when there is
\* none, asks the session manager for one, otherwise calls RAGSystem.query
query_documents(q, sid) ==
    /\ api.pc = "IDLE"
    /\ api.served < MaxRequests
    /\ api' = [api EXCEPT !.pc = IF Truthy(sid) THEN "QUERYING" ELSE "CREATING_SESSION",
                          !.served = @ + 1,
                          !.request = Some([query |-> q, session_id |-> sid]),
                          !.session_id = sid]
    /\ UNCHANGED <<loopvars, registry, callervars, concvars, replayvars>>

\* create_session returns and the handler calls RAGSystem.query
CreateSessionReturns(sid) ==
    /\ api.pc = "CREATING_SESSION"
    /\ api' = [api EXCEPT !.pc = "QUERYING", !.session_id = Some(sid)]
    /\ UNCHANGED <<loopvars, registry, callervars, concvars, replayvars>>

\* create_session raises
CreateSessionRaises(e) ==
    /\ api.pc = "CREATING_SESSION"
    /\ api' = HandlerFails(api, e)
    /\ UNCHANGED <<loopvars, registry, callervars, concvars, replayvars>>

\* RAGSystem.query returns an answer and sources and the handler builds the
\* response; a source SourceCitation rejects makes that raise
RagQueryReturns(answer, srcs) ==
    /\ api.pc = "QUERYING"
    /\ api' = IF \A i \in DOMAIN srcs : ValidSource(srcs[i])
              THEN [api EXCEPT !.pc = "IDLE",
                               !.responses = Append(@,
                                   [request |-> api.served, status |-> 200,
                                    body |-> [answer |-> answer, sources |-> srcs,
                                              session_id |-> api.session_id[1]]])]
              ELSE HandlerFails(api, ValidationError)
    /\ UNCHANGED <<loopvars, registry, callervars, concvars, replayvars>>

\* RAGSystem.query raises, for instance an endpoint fault that left
\* generate_response
RagQueryRaises(e) ==
    /\ api.pc = "QUERYING"
    /\ api' = HandlerFails(api, e)
    /\ UNCHANGED <<loopvars, registry, callervars, concvars, replayvars>>

NextApp ==
    \/ \E q \in RequestQueries, sid \in SessionIds : query_documents(q, sid)
    \/ \E sid \in NewSessionIds : CreateSessionReturns(sid)
    \/ \E e \in AppErrors : CreateSessionRaises(e)
    \/ \E answer \in Answers, srcs \in SourceLists : RagQueryReturns(answer, srcs)
    \/ \E e \in AppErrors : RagQueryRaises(e)

SpecApp == Init /\ [][NextApp]_vars

-----------------------------------------------------------------------------
(* A second generate_response call on the same AIGenerator with the same
   arguments, to which the endpoint and the tools answer as they did to the
   first *)

\* what is kept of a finished run
RunRecord ==
    [calls |-> calls, responses |-> responses, execs |-> execs, faults |-> faults,
     result |-> result, raised |-> raised]

generate_response_again_KeepsMessages ==
    /\ state \in {"DONE", "FAILED"}
    /\ first_run = None
    /\ first_run' = Some(RunRecord)
    /\ system' = SystemContent(conversation_history)
    /\ heap' = << Append(heap[messages], [role |-> "user", content |-> query]) >>
    /\ messages' = 1
    /\ calls' = <<CallRecord(CallParams(system', heap'[1], Truthy(tools),
                                        IF Truthy(tools) THEN tools[1] ELSE <<>>), 1, 0)>>
    /\ state' = "AWAITING_MODEL"
    /\ response' = None
    /\ depth' = 0
    /\ tool_results' = <<>>
    /\ has_error' = FALSE
    /\ idx' = 0
    /\ allow_more_tools' = FALSE
    /\ responses' = <<>>
    /\ execs' = <<>>
    /\ faults' = <<>>
    /\ result' = None
    /\ raised' = None
    /\ UNCHANGED <<query, conversation_history, tools, tool_manager>>
    /\ UNCHANGED <<registry, callervars, concvars, appvars>>

\* generate_response is called again with the arguments of the run that just
\* ended: lines 78-101 build the system text, a new message list and the
\* parameters from the arguments and base_params alone, and every local of
\* the earlier call is gone; the registry keeps what the earlier run left
generate_response_again ==
    /\ state \in {"DONE", "FAILED"}
    /\ first_run = None
    /\ first_run' = Some(RunRecord)
    /\ system' = SystemContent(conversation_history)
    /\ heap' = << <<[role |-> "user", content |-> query]>> >>
    /\ messages' = 1
    /\ calls' = <<CallRecord(CallParams(system', heap'[1], Truthy(tools),
                                        IF Truthy(tools) THEN tools[1] ELSE <<>>), 1, 0)>>
    /\ state' = "AWAITING_MODEL"
    /\ response' = None
    /\ depth' = 0
    /\ tool_results' = <<>>
    /\ has_error' = FALSE
    /\ idx' = 0
    /\ allow_more_tools' = FALSE
    /\ responses' = <<>>
    /\ execs' = <<>>
    /\ faults' = <<>>
    /\ result' = None
    /\ raised' = None
    /\ UNCHANGED <<query, conversation_history, tools, tool_manager>>
    /\ UNCHANGED <<registry, callervars, concvars, appvars>>

\* every tool the responses name is registered
NamesRegisteredTools(resps) ==
    \A i \in DOMAIN resps : \A j \in DOMAIN resps[i].content :
        resps[i].content[j].type = "tool_use"
            => resps[i].content[j].name \in RegisteredTools

\* the first run: any step of generate_response, to which the endpoint
\* answers with invocations of registered tools (an unknown name takes the
\* path of an execution that returns a text)
FirstRun ==
    /\ first_run = None
    /\ Next
    /\ NamesRegisteredTools(responses')

\* the endpoint returns to the second run what it returned to the first at
\* the same position
SameResponse ==
    /\ first_run # None
    /\ state = "AWAITING_MODEL"
    /\ Len(responses) < Len(first_run[1].responses)
    /\ LET resp == first_run[1].responses[Len(responses) + 1]
       IN  \/ FirstResponseEntersLoop(resp)
           \/ FirstResponseReturns(resp)
           \/ NextResponseRecurses(resp)
           \/ NextResponseReturns(resp)

\* the endpoint raises in the second run where it raised in the first: after
\* the same number of responses
SameFault ==
    /\ first_run # None
    /\ Len(responses) = Len(first_run[1].responses)
    /\ first_run[1].faults # <<>>
    /\ EndpointRaises(first_run[1].faults[1].error)

\* the next execution of the second run ends as the execution at the same
\* position of the first: it returns the same text or raises the same error
SameToolOutcome ==
    /\ first_run # None
    /\ Len(execs) < Len(first_run[1].execs)
    /\ LET x == first_run[1].execs[Len(execs) + 1]
       IN  \/ x.outcome = "returned" /\ ToolReturns(x.value)
           \/ x.outcome = "raised" /\ ToolRaises(x.value)

\* the second run's for loop is over and it issues its follow-up call
SecondRunContinues ==
    /\ first_run # None
    /\ ContinueCall

NextReplay ==
    \/ FirstRun
    \/ generate_response_again
    \/ SameResponse
    \/ SameFault
    \/ SameToolOutcome
    \/ SecondRunContinues

SpecReplay == Init /\ [][NextReplay]_vars

\* a history that changes the system text
LoopHistories == {Some("User: hi -- Assistant: hello")}

\* the steps of a query that is given that one history: the history only
\* flows into the system text and never into a branch, so what the loop does
\* with tools, rounds and the registry does not depend on it
NextWithHistory ==
    /\ Next
    /\ conversation_history' \in LoopHistories

SpecWithHistory == Init /\ [][NextWithHistory]_vars

-----------------------------------------------------------------------------
(* Vocabulary of the properties *)

HasToolUse(content) == \E i \in DOMAIN content : content[i].type = "tool_use"

ToolUsePositions(content) == {i \in DOMAIN content : content[i].type = "tool_use"}

\* the text of the first text block, "" when there is none
FirstTextOrEmpty(content) ==
    LET T == {i \in DOMAIN content : content[i].type = "text"}
    IN  IF T = {} THEN "" ELSE content[CHOOSE i \in T : \A j \in T : i <= j].text

\* tool rounds already in the conversation sent with call k: one assistant
\* turn per round
RoundsBefore(k) ==
    Cardinality({i \in DOMAIN calls[k].params.messages :
                    calls[k].params.messages[i].role = "assistant"})

\* the executions made for the response to call k, in order
ExecsOf(k) == SelectSeq(execs, LAMBDA x : x.call = k)

CarriesTools(k) == "tools" \in DOMAIN calls[k].params

ToolsSupplied == tool_manager /\ Truthy(tools)

\* the result entries of round k (the round run for the response to call k):
\* the last turn sent with call k + 1, or tool_results while the round runs
RoundResults(k) ==
    IF k + 1 \in DOMAIN calls
    THEN calls[k + 1].params.messages[Len(calls[k + 1].params.messages)].content
    ELSE tool_results

\* the message sequence passed to call k
Msgs(k) == calls[k].params.messages

\* the tool-invocation blocks of a content, in order
ToolUseBlocks(content) == SelectSeq(content, LAMBDA b : b.type = "tool_use")

\* the rank of execution x among the executions of its own round
RankInRound(x) ==
    Cardinality({y \in 1..x : execs[y].call = execs[x].call})

-----------------------------------------------------------------------------
(* Properties *)

\* C1 (as stated): whenever the first endpoint response contains no
\* tool-invocation block, whatever its stop indicator and whether or not tools
\* and a registry were supplied, exactly one endpoint call is issued and the
\* text of the first text block of that response is returned.
C1_AsStated ==
    (responses # <<>> /\ ~HasToolUse(responses[1].content))
        => /\ Len(calls) = 1
           /\ state = "DONE"
           /\ result = Some(FirstTextOrEmpty(responses[1].content))

\* C1 (amended): whenever the first endpoint response contains no
\* tool-invocation block and it is not the case that its stop indicator is
\* "tool_use" while a non-empty tool list and a registry were both supplied,
\* exactly one endpoint call is issued and the text of the first text block of
\* that response (the empty string when it has none) is returned.
C1_DirectAnswer ==
    (/\ responses # <<>>
     /\ ~HasToolUse(responses[1].content)
     /\ ~(responses[1].stop_reason = "tool_use" /\ ToolsSupplied))
        => /\ Len(calls) = 1
           /\ state = "DONE"
           /\ result = Some(FirstTextOrEmpty(responses[1].content))

\* C1 witness: a query with tools and registry supplied is answered directly
\* from a first response of two text blocks, with the first one's text
C1_Witness ==
    /\ state = "DONE"
    /\ ToolsSupplied
    /\ Len(calls) = 1
    /\ Len(responses[1].content) = 2
    /\ ~HasToolUse(responses[1].content)
    /\ result = Some(responses[1].content[1].text)

\* C2: when MAX_TOOL_ROUNDS tool rounds have already run, the next endpoint
\* call (call number MAX_TOOL_ROUNDS + 1) carries no tool schemas, no tool is
\* executed for its response whatever that response contains, and the first
\* text block of that response (or the empty string) is returned.
C2_LastCallForcesText ==
    \A k \in DOMAIN calls :
        RoundsBefore(k) = MAX_TOOL_ROUNDS
            => /\ k = MAX_TOOL_ROUNDS + 1
               /\ ~CarriesTools(k)
               /\ "tool_choice" \notin DOMAIN calls[k].params
               /\ ExecsOf(k) = <<>>
               /\ k \in DOMAIN responses
                    => /\ state = "DONE"
                       /\ result = Some(FirstTextOrEmpty(responses[k].content))

\* C2 witness: the third response asks for a tool again and its text is
\* returned
C2_Witness ==
    /\ state = "DONE"
    /\ Len(responses) = MAX_TOOL_ROUNDS + 1
    /\ responses[MAX_TOOL_ROUNDS + 1].stop_reason = "tool_use"
    /\ Len(responses[MAX_TOOL_ROUNDS + 1].content) = 2
    /\ responses[MAX_TOOL_ROUNDS + 1].content[1].type = "text"
    /\ HasToolUse(responses[MAX_TOOL_ROUNDS + 1].content)
    /\ result = Some(responses[MAX_TOOL_ROUNDS + 1].content[1].text)

\* C3: in one generate_response call the number of rounds in which tools are
\* executed never exceeds MAX_TOOL_ROUNDS and the number of endpoint calls
\* never exceeds MAX_TOOL_ROUNDS + 1.
C3_RoundsBounded ==
    /\ Cardinality({execs[x].call : x \in DOMAIN execs}) <= MAX_TOOL_ROUNDS
    /\ Len(calls) <= MAX_TOOL_ROUNDS + 1
    /\ \A k \in DOMAIN calls : RoundsBefore(k) <= MAX_TOOL_ROUNDS

\* C3 witness: both bounds are reached
C3_Witness ==
    /\ Cardinality({execs[x].call : x \in DOMAIN execs}) = MAX_TOOL_ROUNDS
    /\ Len(calls) = MAX_TOOL_ROUNDS + 1

\* C4: when every endpoint call and every tool execution comes back, every
\* generate_response call eventually reaches DONE, and DONE is the only state
\* from which no further transition occurs.
C4_Terminates ==
    /\ <>(state = "DONE")
    /\ []((state = "DONE") <=> ~ENABLED NextReturning)

\* C4 witness: DONE is reached although every response asked for a tool
C4_Witness ==
    /\ state = "DONE"
    /\ Len(responses) = MAX_TOOL_ROUNDS + 1
    /\ \A k \in DOMAIN responses :
           responses[k].stop_reason = "tool_use" /\ HasToolUse(responses[k].content)

\* C5: the value returned is always a text string, the text of the first text
\* block of the final response or the empty string when it has none; it is
\* never a tool-invocation payload, and a final response without text still
\* ends the call normally.
C5_ReturnsText ==
    /\ result # None
         => /\ state = "DONE"
            /\ Len(responses) = Len(calls)
            /\ result[1] \in STRING
            /\ result[1] = FirstTextOrEmpty(responses[Len(responses)].content)
            /\ \A k \in DOMAIN responses : \A i \in ToolUsePositions(responses[k].content) :
                   result[1] \notin {responses[k].content[i].id, responses[k].content[i].name}
    /\ (responses # <<>> /\ Len(responses) = Len(calls)
            /\ state \in {"DONE", "FAILED"})
         => result # None /\ raised = None

\* C5 witness: the final response holds only tool-invocation blocks and the
\* empty string is returned
C5_Witness ==
    /\ state = "DONE"
    /\ Len(responses[Len(responses)].content) = 2
    /\ \A i \in DOMAIN responses[Len(responses)].content :
           responses[Len(responses)].content[i].type = "tool_use"
    /\ result = Some("")


\* C6: when the first response requests a tool and the second one is
\* terminal, exactly two endpoint calls occur and the second call's message
\* sequence has length 3: the user turn with the query, the assistant turn
\* with the invocation, a user turn with the result.
C6_OneRoundShape ==
    (/\ Len(responses) >= 2
     /\ HasToolUse(responses[1].content)
     /\ \/ responses[2].stop_reason # "tool_use"
        \/ state = "DONE" /\ Len(responses) = 2)
        => /\ state = "DONE"
           /\ Len(calls) = 2
           /\ LET m == calls[2].params.messages
              IN  /\ Len(m) = 3
                  /\ m[1] = [role |-> "user", content |-> query]
                  /\ m[2] = [role |-> "assistant", content |-> responses[1].content]
                  /\ m[3].role = "user"
                  /\ Len(m[3].content) = Cardinality(ToolUsePositions(responses[1].content))
                  /\ \A n \in DOMAIN m[3].content : m[3].content[n].type = "tool_result"

\* C6 witness: one tool round, then an end_turn response
C6_Witness ==
    /\ state = "DONE"
    /\ Len(responses) = 2
    /\ Len(execs) = 1
    /\ responses[2].stop_reason = "end_turn"
    /\ Len(calls[2].params.messages) = 3

\* C7: if any tool invocation of a round raises, then whatever the round and
\* whatever the other invocations did, the next endpoint call carries no tool
\* schemas, it is the last endpoint call, no further tool is executed, and
\* the answer is the text of that call's response.
C7_ErrorStopsRounds ==
    \A x \in DOMAIN execs :
        execs[x].outcome = "raised"
            => LET k == execs[x].call
               IN  /\ Len(calls) <= k + 1
                   /\ \A y \in DOMAIN execs : execs[y].call <= k
                   /\ k + 1 \in DOMAIN calls => ~CarriesTools(k + 1)
                   /\ k + 1 \in DOMAIN responses
                        => /\ state = "DONE"
                           /\ result = Some(FirstTextOrEmpty(responses[k + 1].content))

\* C7 witness: in round 1 one invocation raised and another returned, the
\* second response asks for a tool again, and its text is the answer
C7_Witness ==
    /\ state = "DONE"
    /\ Len(responses) = 2
    /\ \E x, y \in DOMAIN execs : execs[x].outcome = "raised" /\ execs[y].outcome = "returned"
    /\ responses[2].stop_reason = "tool_use"
    /\ HasToolUse(responses[2].content)
    /\ result # Some("")

\* C8: an exception raised while executing a tool invocation never leaves
\* generate_response; it becomes the tool-result entry of that invocation,
\* with error flag true and text "Error executing tool: " followed by the
\* exception's description.
C8_ToolFaultConverted ==
    /\ raised # None => faults # <<>> /\ raised = Some(faults[Len(faults)].error)
    /\ \A x \in DOMAIN execs :
          execs[x].outcome = "raised"
              => LET k == execs[x].call
                     n == RankInRound(x)
                 IN  /\ state # "FAILED" \/ faults # <<>>
                     /\ n <= Len(RoundResults(k))
                     /\ RoundResults(k)[n] =
                            [type |-> "tool_result",
                             tool_use_id |-> responses[k].content[execs[x].pos].id,
                             content |-> "Error executing tool: " \o execs[x].value,
                             is_error |-> TRUE]

\* C8 witness: a tool raised, the query still returned an answer, and the
\* entry was sent to the endpoint
C8_Witness ==
    /\ state = "DONE"
    /\ raised = None
    /\ \E x \in DOMAIN execs :
          /\ execs[x].outcome = "raised"
          /\ RoundResults(execs[x].call)[RankInRound(x)].content
                = "Error executing tool: Tool failed!"

\* C9: tool faults are isolated per invocation: in every round each
\* tool-invocation block of the response is executed, in order, whether or
\* not another invocation of the round raised, and the entry of an invocation
\* that did not raise carries the tool's output and no error flag.
C9_FaultIsolation ==
    \A k \in DOMAIN calls :
        k + 1 \in DOMAIN calls
            => LET T == ToolUsePositions(responses[k].content)
                   E == ExecsOf(k)
               IN  /\ Len(E) = Cardinality(T)
                   /\ \A n \in DOMAIN E :
                         /\ E[n].pos \in T
                         /\ Cardinality({p \in T : p <= E[n].pos}) = n
                         /\ E[n].outcome = "returned"
                              => RoundResults(k)[n] =
                                     [type |-> "tool_result",
                                      tool_use_id |-> responses[k].content[E[n].pos].id,
                                      content |-> E[n].value]

\* C9 witness: the first invocation of a round raised and the second one was
\* still executed and its output recorded without an error flag
C9_Witness ==
    \E k \in DOMAIN calls :
        /\ k + 1 \in DOMAIN calls
        /\ Len(ExecsOf(k)) = 2
        /\ ExecsOf(k)[1].outcome = "raised"
        /\ ExecsOf(k)[2].outcome = "returned"
        /\ RoundResults(k)[2].content = "Results for search_course_content"
        /\ "is_error" \notin DOMAIN RoundResults(k)[2]

\* C10: a fault raised by an endpoint call, the first or a later one, leaves
\* generate_response as that fault; no answer is returned, and after it no
\* endpoint call is issued and no tool is executed.
C10_EndpointFaultPropagates ==
    faults # <<>>
        => /\ state = "FAILED"
           /\ Len(faults) = 1
           /\ raised = Some(faults[1].error)
           /\ result = None
           /\ Len(calls) = faults[1].call
           /\ Len(responses) = Len(calls) - 1
           /\ \A x \in DOMAIN execs : execs[x].call < faults[1].call

\* C10 witness: the second endpoint call raised after a tool round
C10_Witness ==
    /\ state = "FAILED"
    /\ Len(calls) = 2
    /\ execs # <<>>
    /\ raised = Some("API Error: Rate limited")


\* C11: if either the tool schema list or the registry is absent, no tool is
\* ever executed and exactly one endpoint call is made, even when the response
\* has stop indicator "tool_use" and holds tool-invocation blocks; the first
\* text block of that response is returned.
C11_NoToolsNoLoop ==
    (calls # <<>> /\ (tools = None \/ ~tool_manager))
        => /\ execs = <<>>
           /\ Len(calls) = 1
           /\ responses # <<>>
                => /\ state = "DONE"
                   /\ result = Some(FirstTextOrEmpty(responses[1].content))

\* C11 witness: tools supplied but no registry; the response asks for a tool
\* after a text block, and the text is returned after a single call
C11_Witness ==
    /\ state = "DONE"
    /\ ~tool_manager
    /\ Truthy(tools)
    /\ Len(calls) = 1
    /\ responses[1].stop_reason = "tool_use"
    /\ Len(responses[1].content) = 2
    /\ responses[1].content[1].type = "text"
    /\ responses[1].content[2].type = "tool_use"
    /\ result = Some(responses[1].content[1].text)

\* C12: in every round, the user turn appended after the assistant turn holds
\* exactly one tool-result entry per tool-invocation block of that assistant
\* response, in the order of the blocks, and all entries of the round are in
\* that single user turn (a round whose response holds no invocation block
\* appends no user turn).
C12_OneEntryPerInvocation ==
    \A k \in DOMAIN calls :
        k + 1 \in DOMAIN calls
            => LET B == ToolUseBlocks(responses[k].content)
                   m == Msgs(k)
                   n == Msgs(k + 1)
               IN  /\ n[Len(m) + 1].role = "assistant"
                   /\ B = <<>> => Len(n) = Len(m) + 1
                   /\ B # <<>>
                        => /\ Len(n) = Len(m) + 2
                           /\ n[Len(m) + 2].role = "user"
                           /\ Len(n[Len(m) + 2].content) = Len(B)
                           /\ \A j \in DOMAIN B :
                                 /\ n[Len(m) + 2].content[j].type = "tool_result"
                                 /\ n[Len(m) + 2].content[j].tool_use_id = B[j].id

\* C12 witness: a round of two invocations was answered by one user turn of
\* two entries
C12_Witness ==
    \E k \in DOMAIN calls :
        /\ k + 1 \in DOMAIN calls
        /\ Len(ToolUseBlocks(responses[k].content)) = 2
        /\ Len(Msgs(k + 1)[Len(Msgs(k + 1))].content) = 2

\* C13: each tool-result entry carries as tool_use_id exactly the identifier
\* of the invocation block it answers, and when the invocation did not raise
\* its content is exactly the text the registry returned for that invocation's
\* name and arguments.
C13_EntryMatchesInvocation ==
    \A x \in DOMAIN execs :
        LET k == execs[x].call
            block == responses[k].content[execs[x].pos]
            entry == RoundResults(k)[RankInRound(x)]
        IN  /\ block.type = "tool_use"
            /\ execs[x].name = block.name
            /\ execs[x].input = block.input
            /\ entry.tool_use_id = block.id
            /\ execs[x].outcome = "returned"
                 => /\ entry.content = execs[x].value
                    /\ entry.content \in ExecuteReturns(tool_manager, block.name, block.input)

\* C13 witness: the second invocation of a round returned and its entry, sent
\* with the next call, holds its identifier and the registry's text
C13_Witness ==
    \E x \in DOMAIN execs :
        /\ execs[x].outcome = "returned"
        /\ execs[x].pos = 2
        /\ RankInRound(x) = 2
        /\ execs[x].call + 1 \in DOMAIN calls
        /\ RoundResults(execs[x].call)[2].tool_use_id
              = "toolu_" \o ToString(execs[x].call) \o "_2"
        /\ RoundResults(execs[x].call)[2].content = "Results for search_course_content"

\* C14 (as stated): in the message sequence passed to every endpoint call, for
\* every sequence of endpoint responses, roles strictly alternate starting
\* with a user turn: a user turn is followed by an assistant turn and an
\* assistant turn by a user turn.
C14_AsStated ==
    \A k \in DOMAIN calls :
        /\ Msgs(k)[1].role = "user"
        /\ \A i \in DOMAIN Msgs(k) :
              /\ (Msgs(k)[i].role = "user" /\ i < Len(Msgs(k)))
                    => Msgs(k)[i + 1].role = "assistant"
              /\ Msgs(k)[i].role = "assistant"
                    => (i < Len(Msgs(k)) /\ Msgs(k)[i + 1].role = "user")

\* C14 (amended): the sequence starts with a user turn, a user turn is only
\* ever followed by an assistant turn, and an assistant turn is followed by a
\* user turn exactly when it holds at least one tool-invocation block; an
\* assistant turn without one is followed by no user turn.
C14_Alternation ==
    \A k \in DOMAIN calls :
        /\ Msgs(k)[1].role = "user"
        /\ \A i \in DOMAIN Msgs(k) :
              /\ Msgs(k)[i].role \in {"user", "assistant"}
              /\ (Msgs(k)[i].role = "user" /\ i < Len(Msgs(k)))
                    => Msgs(k)[i + 1].role = "assistant"
              /\ Msgs(k)[i].role = "assistant"
                    => (HasToolUse(Msgs(k)[i].content)
                           <=> (i < Len(Msgs(k)) /\ Msgs(k)[i + 1].role = "user"))

\* C14 witness: the third call carries user, assistant, user, assistant, user
C14_Witness ==
    /\ Len(calls) = MAX_TOOL_ROUNDS + 1
    /\ Len(Msgs(MAX_TOOL_ROUNDS + 1)) = 5
    /\ \A i \in 1..5 :
          Msgs(MAX_TOOL_ROUNDS + 1)[i].role = IF i % 2 = 1 THEN "user" ELSE "assistant"

\* C15 (as stated): an invocation that names a tool not registered in the
\* registry yields an error-flagged tool-result entry whose text says the tool
\* was not found, fed back to the model in the next endpoint call.
C15_AsStated ==
    \A x \in DOMAIN execs :
        execs[x].name \notin RegisteredTools
            => /\ "is_error" \in DOMAIN RoundResults(execs[x].call)[RankInRound(x)]
               /\ RoundResults(execs[x].call)[RankInRound(x)].content
                     = "Tool '" \o execs[x].name \o "' not found"

\* C15 (amended): an invocation that names a tool not registered in the
\* registry yields a tool-result entry without error flag whose text says the
\* tool was not found; it does not count as an error of the round and it is
\* fed back to the model in the next endpoint call like any other output.
C15_NotFoundFedBack ==
    \A x \in DOMAIN execs :
        execs[x].name \notin RegisteredTools
            => /\ execs[x].outcome = "returned"
               /\ RoundResults(execs[x].call)[RankInRound(x)] =
                      [type |-> "tool_result",
                       tool_use_id |-> responses[execs[x].call].content[execs[x].pos].id,
                       content |-> "Tool '" \o execs[x].name \o "' not found"]
               /\ (state \in {"AWAITING_MODEL", "DONE"} /\ execs[x].call = Len(calls) - 1)
                     => Msgs(Len(calls))[Len(Msgs(Len(calls)))].role = "user"

\* C15 witness: the not-found entry was sent with the second call and the
\* query was answered
C15_Witness ==
    /\ state = "DONE"
    /\ Len(calls) = 2
    /\ Len(execs) = 1
    /\ execs[1].name = "nonexistent_tool"
    /\ Msgs(2)[3].content[1].content = "Tool 'nonexistent_tool' not found"


\* the registry operations of kind op, by position in reg_log
OpsOf(op) == {p \in DOMAIN reg_log : reg_log[p].op = op}

\* the citations the execution logged at p stored in the tool it reached
ProducedAt(p) ==
    LET x == reg_log[p]
    IN  UNION {{x.after[i].last_sources[c] : c \in DOMAIN x.after[i].last_sources} :
               i \in {i \in DOMAIN x.after : x.after[i].name = x.name}}

\* the citations stored by the executions of the query in progress (or the
\* last one)
ProducedByQuery ==
    UNION {ProducedAt(p) : p \in {p \in OpsOf("execute") :
                                    /\ reg_log[p].query = queries
                                    /\ reg_log[p].outcome = "returned"}}

NothingRetained(reg) == \A i \in DOMAIN reg : reg[i].last_sources = <<>>

\* C16: dispatching a name that is not registered returns the text
\* "Tool '<name>' not found" (a text containing "not found") and never
\* raises, and the call leaves the registry as it was: the same tools
\* registered, each retaining the same citations.
C16_UnknownNameNotFound ==
    \A p \in OpsOf("execute") :
        ~IsRegistered(reg_log[p].before, reg_log[p].name)
            => /\ reg_log[p].outcome = "returned"
               /\ reg_log[p].value = "Tool '" \o reg_log[p].name \o "' not found"
               /\ reg_log[p].after = reg_log[p].before

\* C16 witness: an unregistered name was dispatched while a tool retained
\* citations
C16_Witness ==
    \E p \in OpsOf("execute") :
        /\ ~IsRegistered(reg_log[p].before, reg_log[p].name)
        /\ ~NothingRetained(reg_log[p].before)

\* C17: a get_last_sources that comes after a get_last_sources followed by a
\* reset_sources, with no tool execution since that reset, returns the empty
\* list, whatever the tools retained before.
C17_DrainResetDrainEmpty ==
    \A a \in OpsOf("drain"), b \in OpsOf("reset"), c \in OpsOf("drain") :
        (a < b /\ b < c /\ \A e \in OpsOf("execute") : ~(b < e /\ e < c))
            => reg_log[c].value = <<>>

\* C17 witness: both tools retained citations, they were read and reset, and
\* the citations were read again with no execution in between
C17_Witness ==
    \E a \in OpsOf("drain"), b \in OpsOf("reset"), c \in OpsOf("drain") :
        /\ b = a + 1
        /\ c = b + 1
        /\ \A i \in DOMAIN reg_log[a].before : reg_log[a].before[i].last_sources # <<>>

\* C18: when queries run one at a time and each is followed by one
\* get_last_sources and then one reset_sources, no tool retains a citation
\* when a query starts, and the citations returned for a query were all
\* produced by tool executions of that very query.
C18_NoLeakAcrossQueries ==
    /\ \A p \in OpsOf("start") : NothingRetained(reg_log[p].before)
    /\ \A i \in DOMAIN sources : sources[i] \in ProducedByQuery
    /\ (caller = "IDLE" /\ queries > 0)
           => \A i \in DOMAIN returned : returned[i] \in ProducedByQuery

\* C18 witness: a query returned citations, and the next query, which ran
\* the search tool only, has returned citations too
C18_Witness ==
    /\ queries = 2
    /\ caller = "IDLE"
    /\ returned # <<>>
    /\ \E p \in OpsOf("start") : reg_log[p].value # <<>>
    /\ \A p \in OpsOf("execute") : reg_log[p].name = "search_course_content"

\* C19: after each tool round, the next endpoint call carries tool schemas if
\* and only if the round counter (depth) is below MAX_TOOL_ROUNDS and no
\* invocation of the round just completed raised; when it does not carry
\* them, the key is omitted entirely rather than sent empty.
C19_ToolsOfferedIff ==
    \A k \in DOMAIN calls :
        k + 1 \in DOMAIN calls
            => /\ calls[k + 1].depth = k
               /\ CarriesTools(k + 1)
                    <=> /\ calls[k + 1].depth < MAX_TOOL_ROUNDS
                        /\ \A n \in DOMAIN ExecsOf(k) : ExecsOf(k)[n].outcome # "raised"
               /\ CarriesTools(k + 1)
                    => /\ calls[k + 1].params.tools = tools[1]
                       /\ calls[k + 1].params.tools # <<>>
               /\ ~CarriesTools(k + 1)
                    => DOMAIN calls[k + 1].params
                          = {"model", "temperature", "max_tokens", "messages", "system"}

\* C19 witness: the call after round 1 carries the schemas, the call after
\* round 2 has no tools key
C19_Witness ==
    /\ Len(calls) = MAX_TOOL_ROUNDS + 1
    /\ CarriesTools(MAX_TOOL_ROUNDS)
    /\ ~CarriesTools(MAX_TOOL_ROUNDS + 1)
    /\ \A x \in DOMAIN execs : execs[x].outcome = "returned"

\* C20 (as stated): for every k >= 1 and every sequence of endpoint
\* responses, the message sequence passed to endpoint call k + 1 has exactly
\* 1 + 2k turns.
C20_AsStated ==
    \A k \in DOMAIN calls :
        k + 1 \in DOMAIN calls => Len(Msgs(k + 1)) = 1 + 2 * k

\* C20 (amended): the message sequence passed to endpoint call k + 1 has one
\* turn for the query, one assistant turn per round, and one user turn per
\* round whose response held at least one tool-invocation block, whether it
\* held one or several: exactly 1 + 2k turns when each of the k responses
\* held at least one.
C20_MessageCount ==
    \A k \in DOMAIN calls :
        k + 1 \in DOMAIN calls
            => /\ Len(Msgs(k + 1))
                    = 1 + k + Cardinality({j \in 1..k : HasToolUse(responses[j].content)})
               /\ (\A j \in 1..k : HasToolUse(responses[j].content))
                    => Len(Msgs(k + 1)) = 1 + 2 * k

\* C20 witness: two rounds, one of them with two invocations, and five turns
\* in the third call
C20_Witness ==
    /\ Len(calls) = MAX_TOOL_ROUNDS + 1
    /\ Len(ExecsOf(1)) = 2
    /\ Len(ExecsOf(2)) = 1
    /\ Len(Msgs(MAX_TOOL_ROUNDS + 1)) = 5

\* C21: the conversation grows by appending only: the message sequence passed
\* to endpoint call k is a proper prefix of the one passed to call k + 1, the
\* two calls are passed different list objects, and the list object passed to
\* a call still holds what it held when the call was issued.
C21_AppendOnly ==
    \A k \in DOMAIN calls :
        /\ Len(heap[calls[k].list]) = Len(Msgs(k))
        /\ heap[calls[k].list] = Msgs(k)
        /\ (k + 1 \in DOMAIN calls)
              => /\ Len(Msgs(k)) < Len(Msgs(k + 1))
                 /\ SubSeq(Msgs(k + 1), 1, Len(Msgs(k))) = Msgs(k)
                 /\ calls[k].list # calls[k + 1].list

\* C21 witness: two rounds ran after the first call, each on its own copy
C21_Witness ==
    /\ state = "DONE"
    /\ Len(calls) = 3
    /\ Len(heap) = 3
    /\ Len(heap[calls[3].list]) = 5
    /\ Len(heap[calls[1].list]) = 1

\* C22: within one query the steps are strictly sequential: a tool
\* invocation is executed only for a response that has been returned, while
\* no endpoint call is in flight, and when the next endpoint call is issued
\* every invocation of the round has been executed (has returned or raised).
C22_StrictlySequential ==
    /\ \A x \in DOMAIN execs :
          /\ execs[x].call \in DOMAIN responses
          /\ responses[execs[x].call].content[execs[x].pos].type = "tool_use"
          /\ (x + 1 \in DOMAIN execs) => execs[x].call <= execs[x + 1].call
    /\ \A k \in DOMAIN calls :
          (k + 1 \in DOMAIN calls)
              => Len(ExecsOf(k)) = Len(ToolUseBlocks(responses[k].content))
    /\ (state = "TOOLS_REQUESTED") => Len(responses) = Len(calls)
    /\ (state = "AWAITING_MODEL") => Len(responses) = Len(calls) - 1

\* C22 witness: the second call was issued after a round of two invocations,
\* one of which raised
C22_Witness ==
    /\ state = "AWAITING_MODEL"
    /\ Len(calls) = 2
    /\ Len(execs) = 2
    /\ execs[1].outcome = "raised"
    /\ execs[2].outcome = "returned"

\* C23: the round counter (depth) is 1 in the first tool round, is one more
\* in each further round (round number r runs at depth r, and the call that
\* follows it is issued at depth r), and is within 1..MAX_TOOL_ROUNDS in
\* every state of the loop; it is 0 only while the loop has not been entered.
C23_DepthCountsRounds ==
    /\ depth \in 0..MAX_TOOL_ROUNDS
    /\ (state = "TOOLS_REQUESTED")
          => /\ depth \in 1..MAX_TOOL_ROUNDS
             /\ depth = Len(responses)
    /\ \A k \in DOMAIN calls : calls[k].depth = k - 1
    /\ (depth = 0) => Len(calls) <= 1

\* C23 witness: the loop is in its last permitted round
C23_Witness ==
    /\ state = "TOOLS_REQUESTED"
    /\ depth = MAX_TOOL_ROUNDS
    /\ Len(responses) = MAX_TOOL_ROUNDS

\* C24: the loop stops as soon as a response does not request tools (its
\* stop_reason is not "tool_use"): such a response is the last one and the
\* query is answered from it; every further endpoint call follows one
\* processed tool round, so when generate_response returns the number of
\* endpoint calls is the number of tool rounds plus one.
C24_CallsAreRoundsPlusOne ==
    /\ \A k \in DOMAIN responses :
          responses[k].stop_reason # "tool_use"
              => (k = Len(calls) /\ state = "DONE")
    /\ \A k \in DOMAIN calls :
          k > 1 => /\ responses[k - 1].stop_reason = "tool_use"
                   /\ RoundsBefore(k) = k - 1
    /\ (state = "DONE")
          => /\ Len(calls) = depth + 1
             /\ Len(calls) = RoundsBefore(Len(calls)) + 1

\* C24 witness: after one round the model could have asked for tools again
\* but ended its turn, and the query was answered with two calls
C24_Witness ==
    /\ state = "DONE"
    /\ Len(calls) = 2
    /\ depth = 1
    /\ CarriesTools(2)
    /\ responses[2].stop_reason = "end_turn"

\* C25: the answer generate_response returns is extracted from the response
\* to the last endpoint call of the query; the content of every earlier
\* response is kept as an assistant turn of the conversation, and no text
\* block of an earlier response is returned as the answer.
C25_AnswerFromLastResponse ==
    (state = "DONE")
        => LET n == Len(calls)
           IN  /\ Len(responses) = n
               /\ result = Some(FirstTextOrEmpty(responses[n].content))
               /\ \A k \in 1..(n - 1) :
                     /\ \E i \in 2..Len(Msgs(n)) :
                           /\ Msgs(n)[i].role = "assistant"
                           /\ Msgs(n)[i].content = responses[k].content
                     /\ \A i \in DOMAIN responses[k].content :
                           responses[k].content[i].type = "text"
                               => result[1] # responses[k].content[i].text

\* C25 witness: the response that requested the tools began with a text
\* block, and the answer is the text of the response to the second call
C25_Witness ==
    /\ state = "DONE"
    /\ Len(calls) = 2
    /\ Len(responses[1].content) = 2
    /\ responses[1].content[1].type = "text"
    /\ responses[1].content[2].type = "tool_use"
    /\ Len(responses[2].content) >= 1
    /\ responses[2].content[1].type = "text"
    /\ result = Some(responses[2].content[1].text)

\* C26: in every tool round the assistant turn appended to the conversation
\* has as content exactly the content of the response that requested the
\* tools, every block unchanged and in order; it is in place while the
\* round's invocations run, and the round's tool-result turn, when there is
\* one, comes right after it.
C26_AssistantTurnVerbatim ==
    /\ (state = "TOOLS_REQUESTED")
          => heap[messages][Len(heap[messages])] =
                 [role |-> "assistant", content |-> responses[Len(responses)].content]
    /\ \A k \in DOMAIN calls :
          (k + 1 \in DOMAIN calls)
              => LET m == Msgs(k + 1)
                     a == Len(Msgs(k)) + 1
                 IN  /\ a <= Len(m)
                     /\ m[a] = [role |-> "assistant", content |-> responses[k].content]
                     /\ Len(m) <= a + 1
                     /\ (Len(m) = a + 1)
                           => /\ m[a + 1].role = "user"
                              /\ \A i \in DOMAIN m[a + 1].content :
                                    m[a + 1].content[i].type = "tool_result"

\* C26 witness: a response made of a text block followed by an invocation
\* was appended whole, and the result turn follows it
C26_Witness ==
    /\ Len(calls) = 2
    /\ Len(responses[1].content) = 2
    /\ responses[1].content[1].type = "text"
    /\ responses[1].content[2].type = "tool_use"
    /\ Len(Msgs(2)) = 3
    /\ Len(Msgs(2)[2].content) = 2

\* C27: a tool-not-found outcome does not suppress further rounds: when a
\* round whose counter is below MAX_TOOL_ROUNDS had an invocation naming an
\* unregistered tool and none of its invocations raised, the next endpoint
\* call still carries the tool schemas.
C27_NotFoundKeepsTools ==
    \A k \in DOMAIN calls :
        ( /\ k + 1 \in DOMAIN calls
          /\ calls[k + 1].depth < MAX_TOOL_ROUNDS
          /\ \E x \in DOMAIN execs :
                execs[x].call = k /\ execs[x].name \notin RegisteredTools
          /\ \A x \in DOMAIN execs :
                execs[x].call = k => execs[x].outcome = "returned" )
            => /\ CarriesTools(k + 1)
               /\ calls[k + 1].params.tools = tools[1]
               /\ calls[k + 1].params.tool_choice = [type |-> "auto"]

\* C27 witness: round 1 dispatched an unregistered name, the second call
\* offered the tools again and the model requested a second round
C27_Witness ==
    /\ Len(calls) = 3
    /\ Len(execs) >= 2
    /\ execs[1].call = 1
    /\ execs[1].name = "nonexistent_tool"
    /\ execs[1].outcome = "returned"
    /\ CarriesTools(2)
    /\ execs[Len(execs)].call = 2

\* the executions of the search tool whose search matched nothing
EmptySearches ==
    {x \in DOMAIN execs : /\ execs[x].name = "search_course_content"
                          /\ ~Finds(execs[x].input)
                          /\ execs[x].outcome = "returned"}

\* C28: an empty search result is a normal outcome: the search tool returns
\* the text "No relevant content found", followed by the course filter and
\* the lesson filter that were applied, the loop's result entry for it holds
\* that text and no error flag, and when the round's counter is below
\* MAX_TOOL_ROUNDS and no invocation of the round raised, the next endpoint
\* call still carries the tool schemas.
C28_EmptyResultIsNormal ==
    \A x \in EmptySearches :
        LET k == execs[x].call
            inp == execs[x].input
            entry == RoundResults(k)[RankInRound(x)]
        IN  /\ execs[x].value =
                   "No relevant content found"
                       \o (IF "course_name" \in DOMAIN inp
                           THEN " in course '" \o inp.course_name \o "'" ELSE "")
                       \o (IF "lesson_number" \in DOMAIN inp
                           THEN " in lesson " \o ToString(inp.lesson_number) ELSE "")
                       \o "."
            /\ entry.content = execs[x].value
            /\ "is_error" \notin DOMAIN entry
            /\ ( /\ k + 1 \in DOMAIN calls
                 /\ calls[k + 1].depth < MAX_TOOL_ROUNDS
                 /\ \A y \in DOMAIN execs :
                       execs[y].call = k => execs[y].outcome = "returned" )
                   => CarriesTools(k + 1)

\* C28 witness: a search with a course filter matched nothing in round 1,
\* the tools were offered again and a second round ran, in which a search
\* without filter matched nothing
C28_Witness ==
    /\ Len(calls) = 3
    /\ \E x \in EmptySearches :
          /\ execs[x].call = 1
          /\ execs[x].value = "No relevant content found in course 'Specific Course'."
    /\ CarriesTools(2)
    /\ \E x \in EmptySearches :
          /\ execs[x].call = 2
          /\ execs[x].value = "No relevant content found."

\* the executions of the tool named n that returned, by position in reg_log
ReturnedRunsOf(n) ==
    {p \in OpsOf("execute") : reg_log[p].name = n /\ reg_log[p].outcome = "returned"}

\* the last position of a non-empty set of positions
LastOf(P) == CHOOSE p \in P : \A q \in P : q <= p

\* C29: a tool's retained citations are overwritten, not accumulated, by every
\* execution: right after an execution, and as long as no reset follows, the
\* tool retains exactly the citations its most recent execution produced
\* (none if it produced none), also when it ran twice within one query, and
\* the citations of the other tools are as they were.
C29_OverwrittenNotAccumulated ==
    /\ \A i \in DOMAIN registry :
          LET E == ReturnedRunsOf(registry[i].name)
          IN  (E # {} /\ \A r \in OpsOf("reset") : r < LastOf(E))
                  => registry[i].last_sources = reg_log[LastOf(E)].produced
    /\ \A p \in OpsOf("execute") :
          reg_log[p].outcome = "returned"
              => \A i \in DOMAIN reg_log[p].after :
                    reg_log[p].after[i].last_sources =
                        IF reg_log[p].after[i].name = reg_log[p].name
                        THEN reg_log[p].produced
                        ELSE reg_log[p].before[i].last_sources

\* C29 witness: within one query the search tool ran twice, producing a
\* citation the first time and none the second, and now retains none
C29_Witness ==
    /\ caller = "GENERATING"
    /\ \E p \in ReturnedRunsOf("search_course_content"),
          q \in ReturnedRunsOf("search_course_content") :
          /\ p < q
          /\ reg_log[p].produced # <<>>
          /\ reg_log[q].produced = <<>>
    /\ registry[1].name = "search_course_content"
    /\ registry[1].last_sources = <<>>

\* the citations caller t's latest execution of the tool named n produced
LastBatch(t, n) ==
    LET P == {p \in DOMAIN threads[t].produced : threads[t].produced[p].name = n}
    IN  IF P = {} THEN <<>> ELSE threads[t].produced[LastOf(P)].cites

\* what caller t's query should return: the latest batch of each tool its own
\* executions produced, in registration order
RECURSIVE OwnSourcesFrom(_, _)
OwnSourcesFrom(t, i) ==
    IF i > Len(RegistrationOrder) THEN <<>>
    ELSE LastBatch(t, RegistrationOrder[i]) \o OwnSourcesFrom(t, i + 1)

\* caller t has read its citations
HasRead(t) == threads[t].pc \in {"DRAINED", "RETURNED"}

\* C30: with two queries running against one registry the drain-then-reset
\* contract is unsafe exactly through their overlap: a query reads something
\* other than the citations of its own executions only if it overlapped with
\* the other query; the witness is an interleaving in which one query reads
\* the other's citations and erases them before the other has read them.
C30_UnsafeOnlyWhenOverlapping ==
    \A t \in Threads :
        (HasRead(t) /\ threads[t].sources # OwnSourcesFrom(t, 1))
            => threads[t].overlap

\* C30 witness: both queries executed the search tool; query 1 read the
\* citation query 2 produced and reset the registry, and query 2 then read
\* nothing although its execution had produced a citation
C30_Witness ==
    /\ threads[1].pc = "RETURNED"
    /\ HasRead(2)
    /\ threads[2].produced # <<>>
    /\ LastBatch(2, "search_course_content") # <<>>
    /\ threads[1].sources = LastBatch(2, "search_course_content")
    /\ threads[2].sources = <<>>

\* C31: every endpoint call of a query that carries tool schemas carries
\* exactly the list the caller supplied, the same elements in the same order,
\* so any two calls of the query that carry schemas carry the same list.
C31_ToolMenuStable ==
    \A k \in DOMAIN calls :
        CarriesTools(k)
            => /\ Truthy(tools)
               /\ calls[k].params.tools = tools[1]
               /\ \A l \in DOMAIN calls :
                     CarriesTools(l) => calls[l].params.tools = calls[k].params.tools

\* C31 witness: the first call and the call after round 1 both carried the
\* two schemas the caller supplied
C31_Witness ==
    /\ Len(calls) >= 2
    /\ CarriesTools(1)
    /\ CarriesTools(2)
    /\ Len(calls[2].params.tools) = 2
    /\ calls[2].params.tools[1] # calls[2].params.tools[2]

\* C32: the system instructions are the same in every endpoint call of a
\* query: the static prompt alone when no history or an empty history was
\* given, otherwise the static prompt followed by a "Previous conversation:"
\* block holding the history; the history is never a message turn: the first
\* turn is the query and every later turn is an assistant turn or a turn of
\* tool results.
C32_SystemBuiltOnce ==
    \A k \in DOMAIN calls :
        /\ calls[k].params.system =
              IF conversation_history = None \/ conversation_history[1] = ""
              THEN SYSTEM_PROMPT
              ELSE SYSTEM_PROMPT \o "\n\nPrevious conversation:\n"
                                 \o conversation_history[1]
        /\ calls[k].params.system = calls[1].params.system
        /\ Msgs(k)[1] = [role |-> "user", content |-> query]
        /\ (conversation_history # None) => Msgs(k)[1].content # conversation_history[1]
        /\ \A i \in 2..Len(Msgs(k)) :
              \/ Msgs(k)[i].role = "assistant"
              \/ /\ Msgs(k)[i].role = "user"
                 /\ Msgs(k)[i].content # <<>>
                 /\ \A j \in DOMAIN Msgs(k)[i].content :
                       Msgs(k)[i].content[j].type = "tool_result"

\* C32 witness: a query with a history ran two rounds and its third call
\* carried the prompt with the history block
C32_Witness ==
    /\ Len(calls) = 3
    /\ conversation_history = Some("User: hi -- Assistant: hello")
    /\ calls[3].params.system =
          SYSTEM_PROMPT \o "\n\nPrevious conversation:\nUser: hi -- Assistant: hello"

\* C33: every endpoint call carries the model selection fixed at
\* construction, temperature 0 and max_tokens 800, in the first call and in
\* the call after every round alike.
C33_FixedSamplingParams ==
    \A k \in DOMAIN calls :
        /\ calls[k].params.model = base_params.model
        /\ calls[k].params.temperature = 0
        /\ calls[k].params.max_tokens = 800
        /\ DOMAIN calls[k].params \subseteq
              {"model", "temperature", "max_tokens", "messages", "system",
               "tools", "tool_choice"}

\* C33 witness: the call after the second round, made without tool schemas,
\* still carries the three parameters
C33_Witness ==
    /\ Len(calls) = 3
    /\ ~CarriesTools(3)
    /\ calls[3].params.max_tokens = 800
    /\ calls[3].params.temperature = 0

\* the responses sent for request n
ResponsesTo(n) == {i \in DOMAIN api.responses : api.responses[i].request = n}

\* C34: any fault raised while a request is answered (by create_session, by
\* RAGSystem.query, for instance an endpoint fault that left the loop, or
\* while the response is built) gives exactly one response for that request,
\* with status 500 and the fault's text as detail, and no answer, sources or
\* session id in it; a request answered without fault gets one 200 response.
C34_FaultGivesOne500 ==
    /\ \A f \in DOMAIN api.raised :
          LET n == api.raised[f].request
          IN  /\ Cardinality(ResponsesTo(n)) = 1
              /\ \A i \in ResponsesTo(n) :
                    /\ api.responses[i].status = 500
                    /\ api.responses[i].body = [detail |-> api.raised[f].error]
              /\ Cardinality({g \in DOMAIN api.raised : api.raised[g].request = n}) = 1
    /\ \A n \in 1..api.served :
          Cardinality(ResponsesTo(n)) = (IF n = api.served /\ api.pc # "IDLE" THEN 0 ELSE 1)
    /\ \A i \in DOMAIN api.responses :
          api.responses[i].status = 200
              => /\ \A f \in DOMAIN api.raised :
                       api.raised[f].request # api.responses[i].request
                 /\ DOMAIN api.responses[i].body = {"answer", "sources", "session_id"}

\* C34 witness: the first request was answered with citations, the second
\* failed with an endpoint fault and got a single 500 response
C34_Witness ==
    /\ api.pc = "IDLE"
    /\ api.served = 2
    /\ Len(api.responses) = 2
    /\ api.responses[1].status = 200
    /\ Len(api.responses[1].body.sources) = 1
    /\ api.responses[2].status = 500
    /\ api.responses[2].body = [detail |-> "API Error: Rate limited"]

\* the last execution dispatched to tool n that returned, 0 when there is none
LastReturnedOf(n) ==
    LET xs == {x \in DOMAIN execs : execs[x].name = n /\ execs[x].outcome = "returned"}
    IN  IF xs = {} THEN 0 ELSE CHOOSE x \in xs : \A y \in xs : y <= x

\* the citations execution x of this query produced
CitationsOfExec(x) ==
    Citations(execs[x].call, execs[x].pos, Produces(execs[x].name, execs[x].input))

\* C35: generate_response changes the registry only through execute_tool and
\* never drains or resets it: at every point of a query, and so when it has
\* returned and when it has ended with an endpoint fault, each registered
\* tool retains exactly the citations of the last execution dispatched to it
\* that returned (nothing when none did).
C35_CitationsRetained ==
    \A i \in DOMAIN registry :
        LET x == LastReturnedOf(registry[i].name)
        IN  registry[i].last_sources = (IF x = 0 THEN <<>> ELSE CitationsOfExec(x))

\* C35 witness: the endpoint raised on the follow-up call of a round whose
\* search produced a citation, and the registry still holds that citation
C35_Witness ==
    /\ state = "FAILED"
    /\ Len(calls) >= 2
    /\ \E x \in DOMAIN execs :
          /\ execs[x].outcome = "returned"
          /\ CitationsOfExec(x) # <<>>
          /\ get_last_sources(registry) = CitationsOfExec(x)

\* C36: a tool invocation is executed only when a registry was supplied and
\* the response holding it answered an endpoint call that carried tool
\* schemas; the invocation blocks of a response to a call made without
\* schemas are never executed.
C36_ExecutedOnlyIfOffered ==
    /\ \A x \in DOMAIN execs : tool_manager /\ CarriesTools(execs[x].call)
    /\ \A k \in DOMAIN responses :
          (~CarriesTools(k) \/ ~tool_manager) => ExecsOf(k) = <<>>

\* C36 witness: a round's execution raised, so the follow-up call carried no
\* schemas; its response asks for tools again and holds an invocation, and
\* the query returned without executing it
C36_Witness ==
    /\ state = "DONE"
    /\ Len(responses) = 2
    /\ ExecsOf(1) # <<>>
    /\ ~CarriesTools(2)
    /\ responses[2].stop_reason = "tool_use"
    /\ HasToolUse(responses[2].content)
    /\ ExecsOf(2) = <<>>

\* C37: the first endpoint call carries tool schemas exactly when a
\* non-empty tool list was supplied, with or without a registry; with an
\* empty list, as with none, the call has no tools and no tool_choice key,
\* it is the only call of the query and nothing is executed.
C37_SchemasIffNonEmptyList ==
    calls # <<>> =>
        /\ CarriesTools(1) <=> Truthy(tools)
        /\ Truthy(tools) => calls[1].params.tools = tools[1]
        /\ ~Truthy(tools) =>
              /\ DOMAIN calls[1].params = DOMAIN base_params \cup {"messages", "system"}
              /\ Len(calls) = 1
              /\ execs = <<>>

\* C37 witness: an empty tool list and a registry were supplied; the only
\* response asks for a tool, and the query returned after one call without
\* schemas and without any execution
C37_Witness ==
    /\ state = "DONE"
    /\ tools = Some(<<>>)
    /\ tool_manager
    /\ Len(calls) = 1
    /\ ~CarriesTools(1)
    /\ responses[1].stop_reason = "tool_use"
    /\ HasToolUse(responses[1].content)
    /\ execs = <<>>

\* response k asks for tools without holding any invocation block
AsksWithoutInvocation(k) ==
    /\ responses[k].stop_reason = "tool_use"
    /\ ~HasToolUse(responses[k].content)

\* C38: when a response asks for tools but holds no invocation block (tools
\* and registry supplied, round permitted), the loop still issues a follow-up
\* call whose messages are those of the previous call plus the assistant
\* turn only, so they end with an assistant turn; no call ever carries a
\* user turn with an empty result list.
C38_EmptyRoundSendsNoUserTurn ==
    /\ \A k \in DOMAIN responses :
          (AsksWithoutInvocation(k) /\ k + 1 \in DOMAIN calls) =>
              /\ Msgs(k + 1) = Append(Msgs(k), [role |-> "assistant",
                                                content |-> responses[k].content])
              /\ Msgs(k + 1)[Len(Msgs(k + 1))].role = "assistant"
              /\ ExecsOf(k) = <<>>
    /\ \A k \in DOMAIN responses :
          (/\ AsksWithoutInvocation(k)
           /\ ToolsSupplied
           /\ k <= MAX_TOOL_ROUNDS
           /\ CarriesTools(k)
           /\ state \in {"DONE", "FAILED"}) => k + 1 \in DOMAIN calls
    /\ \A k \in DOMAIN calls : \A i \in 2..Len(Msgs(k)) :
          Msgs(k)[i].role = "user" => Msgs(k)[i].content # <<>>

\* C38 witness: the first response asked for tools without any invocation
\* block; a second call was issued whose messages are the query and the
\* assistant turn, and the query returned
C38_Witness ==
    /\ state = "DONE"
    /\ Len(calls) = 2
    /\ AsksWithoutInvocation(1)
    /\ Len(Msgs(2)) = 2
    /\ Msgs(2)[2].role = "assistant"
    /\ execs = <<>>

\* a is an initial segment of b
IsPrefix(a, b) == Len(a) <= Len(b) /\ \A i \in DOMAIN a : a[i] = b[i]

\* the way an execution ended: returned or raised, and with what
Outcomes(xs) == [i \in DOMAIN xs |-> [outcome |-> xs[i].outcome, value |-> xs[i].value]]

\* the second run can take its next step with what the endpoint and the
\* tools gave the first run: it never asks for a response or an execution
\* the first run did not ask for
SecondRunFollows ==
    LET f == first_run[1]
    IN  /\ state = "AWAITING_MODEL" =>
              \/ Len(responses) < Len(f.responses)
              \/ Len(responses) = Len(f.responses) /\ f.faults # <<>>
        /\ (state = "TOOLS_REQUESTED" /\ NextToolUse(response[1].content, idx) # 0) =>
              /\ Len(execs) < Len(f.execs)
              /\ LET x == f.execs[Len(execs) + 1]
                     b == response[1].content[NextToolUse(response[1].content, idx)]
                 IN  x.name = b.name /\ x.input = b.input

====
